---- MODULE Spec2Model ----
(***************************************************************************)
(* pdf-query (src/app.py): a Flask application that ingests PDF documents  *)
(* into a Cassandra vector store and answers questions against it.         *)
(* The model covers the four module-level handles and their lazy           *)
(* initialisation, the upload and query handlers, the health check, the    *)
(* upload folder and the vector store's table, with request handlers       *)
(* running concurrently on worker threads.                                  *)
(***************************************************************************)
EXTENDS Integers, Sequences, FiniteSets, TLC

(* ------------------------------------------------------------------ *)
(* Bounds                                                             *)
(* ------------------------------------------------------------------ *)

\* worker threads serving requests concurrently
NumThreads == 2

\* requests served in one process lifetime
MaxRequests == 2

Threads == 1..NumThreads

(* ------------------------------------------------------------------ *)
(* Program constants                                                  *)
(* ------------------------------------------------------------------ *)

chunk_size == 800

chunk_overlap == 200

separator == "\n"

\* k of similarity_search_with_score
TopK == 4

\* characters of a chunk shown in a response (line 180)
SnippetLen == 300

None == 0

Whitespace == {" ", "\n"}

(* ------------------------------------------------------------------ *)
(* Strings as sequences of characters                                 *)
(* ------------------------------------------------------------------ *)

Rep(c, n) == [i \in 1..n |-> c]

\* str.strip(): drop leading and trailing whitespace
Strip(s) ==
    IF \A i \in 1..Len(s) : s[i] \in Whitespace THEN <<>>
    ELSE LET lo == CHOOSE i \in 1..Len(s) :
                     /\ s[i] \notin Whitespace
                     /\ \A j \in 1..(i - 1) : s[j] \in Whitespace
             hi == CHOOSE i \in 1..Len(s) :
                     /\ s[i] \notin Whitespace
                     /\ \A j \in (i + 1)..Len(s) : s[j] \in Whitespace
         IN  SubSeq(s, lo, hi)

RECURSIVE Concat(_)
\* ''.join(parts)
Concat(parts) ==
    IF parts = <<>> THEN <<>> ELSE Head(parts) \o Concat(Tail(parts))

RECURSIVE Join(_, _)
\* sep.join(parts)
Join(parts, sep) ==
    IF parts = <<>> THEN <<>>
    ELSE IF Len(parts) = 1 THEN parts[1]
    ELSE parts[1] \o <<sep>> \o Join(Tail(parts), sep)

(* ------------------------------------------------------------------ *)
(* Uploaded documents                                                  *)
(* ------------------------------------------------------------------ *)

\* the PDF files a client may upload
Docs == {"malformed", "blank", "short", "long", "nosep"}

\* documents ingested by earlier runs of the application into the same table
EarlierDocs == {"many"}

\* texts handed to process_and_store_text directly: "" and " \n"
EmptyTexts == {"empty", "blank"}

FileNames == {"a.pdf", "b.pdf"}

NoFile == "absent"

NoText == "none"

\* PdfReader(pdf_path).pages, each page by what page.extract_text() returns
PdfPages(d) ==
    CASE d = "blank" -> << <<" ", "\n">>, <<>> >>
      [] d = "short" -> << Rep("s", 36) >>
      [] d = "long"  -> << Rep("A", 500) \o <<"\n">>, Rep("B", 500) >>
      [] d = "nosep" -> << Rep("A", 900) >>
      [] d = "many"  -> << Rep("a", 300) \o <<"\n">> \o Rep("b", 600) \o <<"\n">>,
                           Rep("c", 301) \o <<"\n">> \o Rep("d", 600) \o <<"\n">>
                               \o Rep("e", 299) >>
      [] OTHER       -> << >>

\* PdfReader raises on a byte stream that is no PDF
Parses(d) == d # "malformed"

\* extract_text_from_pdf: the concatenated page texts, or NoText for None
RawText(d) ==
    Concat(SelectSeq(PdfPages(d), LAMBDA content : content # <<>>))

ExtractResult(d) ==
    IF ~Parses(d) THEN NoText
    ELSE IF Strip(RawText(d)) = <<>> THEN NoText
    ELSE d

\* what extraction gives for each document
Extracted == [d \in Docs |-> ExtractResult(d)]

(* ------------------------------------------------------------------ *)
(* CharacterTextSplitter(separator, chunk_size, chunk_overlap, len)    *)
(* ------------------------------------------------------------------ *)

\* re.split(separator, text) with the empty pieces dropped
SplitOnSeparator(s, sep) ==
    LET cuts  == {0, Len(s) + 1} \cup {i \in 1..Len(s) : s[i] = sep}
        n     == Cardinality(cuts)
        at(k) == CHOOSE p \in cuts : Cardinality({q \in cuts : q < p}) = k - 1
        pieces == [k \in 1..(n - 1) |-> SubSeq(s, at(k) + 1, at(k + 1) - 1)]
    IN  SelectSeq(pieces, LAMBDA piece : piece # <<>>)

\* _join_docs: the joined, stripped text as a one-element list, or none
JoinDocs(current_doc, sep) ==
    LET joined == Strip(Join(current_doc, sep))
    IN  IF joined = <<>> THEN <<>> ELSE <<joined>>

\* the separator's share of the running total
SepLen(current_doc, least) == IF Len(current_doc) > least THEN 1 ELSE 0

RECURSIVE PopWhile(_, _, _)
\* the while loop of _merge_splits: drop leading pieces of current_doc
PopWhile(current_doc, total, len) ==
    IF total > chunk_overlap
       \/ (total + len + SepLen(current_doc, 0) > chunk_size /\ total > 0)
    THEN PopWhile(Tail(current_doc),
                  total - (Len(Head(current_doc)) + SepLen(current_doc, 1)),
                  len)
    ELSE [current_doc |-> current_doc, total |-> total]

RECURSIVE MergeSplits(_, _, _, _, _)
\* _merge_splits: greedy accumulation of pieces into chunks
MergeSplits(splits, sep, docs, current_doc, total) ==
    IF splits = <<>> THEN docs \o JoinDocs(current_doc, sep)
    ELSE
      LET d    == Head(splits)
          len  == Len(d)
          over == total + len + SepLen(current_doc, 0) > chunk_size
          emit == over /\ Len(current_doc) > 0
          docs2 == IF emit THEN docs \o JoinDocs(current_doc, sep) ELSE docs
          kept  == IF emit THEN PopWhile(current_doc, total, len)
                   ELSE [current_doc |-> current_doc, total |-> total]
          cur2  == Append(kept.current_doc, d)
      IN  MergeSplits(Tail(splits), sep, docs2, cur2,
                      kept.total + len + SepLen(cur2, 1))

\* text_splitter.split_text(text)
split_text(s) ==
    MergeSplits(SplitOnSeparator(s, separator), separator, <<>>, <<>>, 0)

\* the chunks of each document whose text extracts
Texts == [d \in Docs \cup EarlierDocs \cup EmptyTexts |-> split_text(RawText(d))]

(* ------------------------------------------------------------------ *)
(* State                                                               *)
(* ------------------------------------------------------------------ *)

VARIABLES
    environ,        \* which of the three configuration values are set (lines 25-27)
    llm,            \* global llm: None or the OpenAI object of attempt k
    embedding,      \* global embedding: None or the OpenAIEmbeddings object of attempt k
    vector_store,   \* global vector_store: the Cassandra object and the embedding it is bound to
    vector_index,   \* global vector_index: the wrapper and the store it wraps
    collection,     \* the rows of table pdf_query, in insertion order
    uploads,        \* the upload folder: file name -> document saved there
    nreq,           \* requests received so far
    everFailed,     \* some external call has raised in this process
    pc,             \* per thread: position in its handler
    req,            \* per thread: the request being served (or last served)
    rid,            \* per thread: number of that request
    resp,           \* per thread: the response returned for it
    calls,          \* per thread: what the request has called so far, in order
    text,           \* per thread: result of extract_text_from_pdf
    stored,         \* per thread: chunks add_texts has persisted for this request
    used,           \* per thread: the store objects generation and search ran against
    seen            \* per thread: the flags health_check has read so far

globals == <<llm, embedding, vector_store, vector_index>>

locals == <<pc, req, rid, resp, calls, text, stored, used, seen>>

vars == <<environ, llm, embedding, vector_store, vector_index, collection,
          uploads, nreq, everFailed, pc, req, rid, resp, calls, text, stored,
          used, seen>>

ASTRA_DB_APPLICATION_TOKEN == environ[1]

ASTRA_DB_ID == environ[2]

OPENAI_API_KEY == environ[3]

NoneStore == [id |-> None, embedding |-> None]

NoneIndex == [id |-> None, vectorstore |-> NoneStore]

(* ------------------------------------------------------------------ *)
(* Requests and responses                                              *)
(* ------------------------------------------------------------------ *)

NoBody == [present |-> FALSE, question |-> <<>>]

Questions == {<<>>, <<" ", " ", " ">>, <<" ", "w", "h", "y", "?">>}

Bodies == {NoBody} \cup {[present |-> TRUE, question |-> q] : q \in Questions}

\* form: what request.files holds under 'pdf'
UploadRequests ==
    {[op |-> "upload", form |-> f, filename |-> NoFile, doc |-> NoFile, body |-> NoBody] :
        f \in {"no_pdf_field", "no_filename", "not_pdf"}}
    \cup
    {[op |-> "upload", form |-> "pdf", filename |-> n, doc |-> d, body |-> NoBody] :
        n \in FileNames, d \in Docs}

QueryRequests ==
    {[op |-> "query", form |-> "json", filename |-> NoFile, doc |-> NoFile, body |-> b] :
        b \in Bodies}

HealthRequest ==
    [op |-> "health", form |-> "get", filename |-> NoFile, doc |-> NoFile, body |-> NoBody]

NoRequest ==
    [op |-> "none", form |-> "none", filename |-> NoFile, doc |-> NoFile, body |-> NoBody]

NoFlags == <<FALSE, FALSE, FALSE>>

Failure(error) ==
    [success |-> FALSE, error |-> error, count |-> 0, components |-> NoFlags]

Success(count) ==
    [success |-> TRUE, error |-> "", count |-> count, components |-> NoFlags]

\* health_check's body: vector_store, llm, embedding
Healthy(flags) ==
    [success |-> TRUE, error |-> "", count |-> 0, components |-> flags]

NoResponse == Failure("pending")

E_NoPdf == "No PDF file provided"

E_NoFile == "No file selected"

E_NotPdf == "Please upload a PDF file"

E_Extract == "Failed to extract text from PDF. Please ensure the PDF contains readable text."

E_Process == "Failed to process and store text"

E_NotInit == "System not initialized. Please restart the application."

E_NoQuestion == "No question provided"

E_EmptyQuestion == "Question cannot be empty"

E_Server == "Server error"

NoUse ==
    [index_store |-> None, store |-> None, relevant_docs |-> <<>>,
     docs_data |-> <<>>]

(* ------------------------------------------------------------------ *)
(* Init                                                                *)
(* ------------------------------------------------------------------ *)

Init ==
    /\ environ \in [1..3 -> BOOLEAN]
    /\ llm = None
    /\ embedding = None
    /\ vector_store = NoneStore
    /\ vector_index = NoneIndex
    /\ collection = <<>>
    /\ uploads = [n \in FileNames |-> NoFile]
    /\ nreq = 0
    /\ everFailed = FALSE
    /\ pc = [t \in Threads |-> "idle"]
    /\ req = [t \in Threads |-> NoRequest]
    /\ rid = [t \in Threads |-> 0]
    /\ resp = [t \in Threads |-> NoResponse]
    /\ calls = [t \in Threads |-> <<>>]
    /\ text = [t \in Threads |-> NoText]
    /\ stored = [t \in Threads |-> 0]
    /\ used = [t \in Threads |-> NoUse]
    /\ seen = [t \in Threads |-> NoFlags]

(* ------------------------------------------------------------------ *)
(* Steps shared by the handlers                                        *)
(* ------------------------------------------------------------------ *)

\* a request arrives at an idle thread: the handler's locals start afresh
Accept(t, r) ==
    /\ pc[t] = "idle"
    /\ nreq < MaxRequests
    /\ nreq' = nreq + 1
    /\ req' = [req EXCEPT ![t] = r]
    /\ rid' = [rid EXCEPT ![t] = nreq + 1]
    /\ UNCHANGED <<text, stored, used>>

\* the handler returns jsonify(r)
Return(t, r) ==
    /\ pc' = [pc EXCEPT ![t] = "done"]
    /\ resp' = [resp EXCEPT ![t] = r]

Goto(t, label) ==
    /\ pc' = [pc EXCEPT ![t] = label]
    /\ UNCHANGED resp

\* the request's log of what it called
Calls(t, names) == calls' = [calls EXCEPT ![t] = @ \o names]

Call(t, name) == Calls(t, <<name>>)

Raised(t, name) == Calls(t, <<name, "raise">>)

(* ------------------------------------------------------------------ *)
(* initialize_components (lines 34-59)                                 *)
(* ------------------------------------------------------------------ *)

\* return False, to line 84 or to line 154
InitReturnsFalse(t) ==
    IF req[t].op = "upload"
    THEN Goto(t, "rm_process")
    ELSE Return(t, Failure(E_NotInit))

\* return True, to line 88 or to line 156
InitReturnsTrue(t) ==
    IF req[t].op = "upload" THEN Goto(t, "split") ELSE Goto(t, "q_check")

\* an external call raised: line 57 logs it and line 59 returns False
InitRaises(t, name) ==
    /\ Raised(t, name)
    /\ everFailed' = TRUE
    /\ InitReturnsFalse(t)

\* variant with a fault: the configuration check of line 38 is left out
initialize_components_unchecked(t) ==
    /\ pc[t] = "init"
    /\ \E ok \in BOOLEAN :
         IF ok
         THEN /\ Calls(t, <<"initialize_components", "cassio.init">>)
              /\ Goto(t, "init_llm")
              /\ UNCHANGED everFailed
         ELSE /\ Calls(t, <<"initialize_components", "cassio.init", "raise">>)
              /\ everFailed' = TRUE
              /\ InitReturnsFalse(t)
    /\ UNCHANGED <<environ, globals, collection, uploads, nreq, req, rid,
                   text, stored, used, seen>>

\* lines 38-41: the configuration check, then cassio.init
initialize_components(t) ==
    /\ pc[t] = "init"
    /\ IF ~(ASTRA_DB_APPLICATION_TOKEN /\ ASTRA_DB_ID /\ OPENAI_API_KEY)
       THEN /\ InitReturnsFalse(t)
            /\ Calls(t, <<"initialize_components", "config_missing">>)
            /\ UNCHANGED everFailed
       ELSE \E ok \in BOOLEAN :
              IF ok
              THEN /\ Calls(t, <<"initialize_components", "cassio.init">>)
                   /\ Goto(t, "init_llm")
                   /\ UNCHANGED everFailed
              ELSE /\ Calls(t, <<"initialize_components", "cassio.init", "raise">>)
                   /\ everFailed' = TRUE
                   /\ InitReturnsFalse(t)
    /\ UNCHANGED <<environ, globals, collection, uploads, nreq, req, rid,
                   text, stored, used, seen>>

\* line 43: llm = OpenAI()
init_llm(t) ==
    /\ pc[t] = "init_llm"
    /\ \E ok \in BOOLEAN :
         IF ok
         THEN /\ llm' = rid[t]
              /\ Call(t, "OpenAI")
              /\ Goto(t, "init_embedding")
              /\ UNCHANGED everFailed
         ELSE /\ InitRaises(t, "OpenAI")
              /\ UNCHANGED llm
    /\ UNCHANGED <<environ, embedding, vector_store, vector_index, collection,
                   uploads, nreq, req, rid, text, stored, used, seen>>

\* variant with a fault: a failure at line 44 sets llm back to None
init_embedding_resets_llm(t) ==
    /\ pc[t] = "init_embedding"
    /\ \E ok \in BOOLEAN :
         IF ok
         THEN /\ embedding' = rid[t]
              /\ Call(t, "OpenAIEmbeddings")
              /\ Goto(t, "init_store")
              /\ UNCHANGED <<everFailed, llm>>
         ELSE /\ InitRaises(t, "OpenAIEmbeddings")
              /\ llm' = None
              /\ UNCHANGED embedding
    /\ UNCHANGED <<environ, vector_store, vector_index, collection,
                   uploads, nreq, req, rid, text, stored, used, seen>>

\* line 44: embedding = OpenAIEmbeddings()
init_embedding(t) ==
    /\ pc[t] = "init_embedding"
    /\ \E ok \in BOOLEAN :
         IF ok
         THEN /\ embedding' = rid[t]
              /\ Call(t, "OpenAIEmbeddings")
              /\ Goto(t, "init_store")
              /\ UNCHANGED everFailed
         ELSE /\ InitRaises(t, "OpenAIEmbeddings")
              /\ UNCHANGED embedding
    /\ UNCHANGED <<environ, llm, vector_store, vector_index, collection,
                   uploads, nreq, req, rid, text, stored, used, seen>>

\* lines 47-52: vector_store = Cassandra(embedding = embedding, ...)
init_vector_store(t) ==
    /\ pc[t] = "init_store"
    /\ \E ok \in BOOLEAN :
         IF ok
         THEN /\ vector_store' = [id |-> rid[t], embedding |-> embedding]
              /\ Call(t, "Cassandra")
              /\ Goto(t, "init_index")
              /\ UNCHANGED everFailed
         ELSE /\ InitRaises(t, "Cassandra")
              /\ UNCHANGED vector_store
    /\ UNCHANGED <<environ, llm, embedding, vector_index, collection,
                   uploads, nreq, req, rid, text, stored, used, seen>>

\* lines 54-56: vector_index = VectorStoreIndexWrapper(vectorstore = vector_store)
init_vector_index(t) ==
    /\ pc[t] = "init_index"
    /\ \E ok \in BOOLEAN :
         IF ok
         THEN /\ vector_index' = [id |-> rid[t], vectorstore |-> vector_store]
              /\ Call(t, "VectorStoreIndexWrapper")
              /\ InitReturnsTrue(t)
              /\ UNCHANGED everFailed
         ELSE /\ InitRaises(t, "VectorStoreIndexWrapper")
              /\ UNCHANGED vector_index
    /\ UNCHANGED <<environ, llm, embedding, vector_store, collection,
                   uploads, nreq, req, rid, text, stored, used, seen>>

(* ------------------------------------------------------------------ *)
(* upload_pdf (lines 111-147)                                          *)
(* ------------------------------------------------------------------ *)

\* variant with a fault: initialisation is entered before the text is extracted
upload_pdf_init_first(t) ==
    /\ \E r \in UploadRequests :
         /\ Accept(t, r)
         /\ IF r.form = "no_pdf_field"
            THEN Return(t, Failure(E_NoPdf)) /\ calls' = [calls EXCEPT ![t] = <<>>]
                 /\ UNCHANGED uploads
            ELSE IF r.form = "no_filename"
            THEN Return(t, Failure(E_NoFile)) /\ calls' = [calls EXCEPT ![t] = <<>>]
                 /\ UNCHANGED uploads
            ELSE IF r.form = "not_pdf"
            THEN Return(t, Failure(E_NotPdf)) /\ calls' = [calls EXCEPT ![t] = <<>>]
                 /\ UNCHANGED uploads
            ELSE /\ uploads' = [uploads EXCEPT ![r.filename] = r.doc]
                 /\ calls' = [calls EXCEPT ![t] = <<"file.save">>]
                 /\ pc' = [pc EXCEPT ![t] = IF vector_store = NoneStore
                                            THEN "init" ELSE "extract"]
                 /\ resp' = [resp EXCEPT ![t] = NoResponse]
    /\ UNCHANGED <<environ, globals, collection, everFailed, seen>>

\* lines 114-126: the request is validated and the file saved
upload_pdf(t) ==
    /\ \E r \in UploadRequests :
         /\ Accept(t, r)
         /\ IF r.form = "no_pdf_field"
            THEN Return(t, Failure(E_NoPdf)) /\ calls' = [calls EXCEPT ![t] = <<>>]
                 /\ UNCHANGED uploads
            ELSE IF r.form = "no_filename"
            THEN Return(t, Failure(E_NoFile)) /\ calls' = [calls EXCEPT ![t] = <<>>]
                 /\ UNCHANGED uploads
            ELSE IF r.form = "not_pdf"
            THEN Return(t, Failure(E_NotPdf)) /\ calls' = [calls EXCEPT ![t] = <<>>]
                 /\ UNCHANGED uploads
            ELSE /\ uploads' = [uploads EXCEPT ![r.filename] = r.doc]
                 /\ calls' = [calls EXCEPT ![t] = <<"file.save">>]
                 /\ pc' = [pc EXCEPT ![t] = "extract"]
                 /\ resp' = [resp EXCEPT ![t] = NoResponse]
    /\ UNCHANGED <<environ, globals, collection, everFailed, seen>>

\* line 128 and lines 62-79: a file that is gone or does not parse gives None
extract_text_from_pdf(t) ==
    /\ pc[t] = "extract"
    /\ LET saved  == uploads[req[t].filename]
           result == IF saved = NoFile THEN NoText ELSE Extracted[saved]
       IN  /\ text' = [text EXCEPT ![t] = result]
           /\ Goto(t, IF result = NoText THEN "rm_extract" ELSE "pst")
    /\ Call(t, "extract_text_from_pdf")
    /\ UNCHANGED <<environ, globals, collection, uploads, nreq, everFailed,
                   req, rid, stored, used, seen>>

\* what upload_pdf returns after the os.remove of line 130, 135 or 138
AfterRemove(t) ==
    IF pc[t] = "rm_extract" THEN Failure(E_Extract)
    ELSE IF pc[t] = "rm_process" THEN Failure(E_Process)
    ELSE Success(Len(Texts[text[t]]))

\* os.remove(filepath): raises when the file is gone, and line 145 catches it
os_remove(t) ==
    /\ pc[t] \in {"rm_extract", "rm_process", "rm_done"}
    /\ IF uploads[req[t].filename] = NoFile
       THEN /\ Return(t, Failure(E_Server))
            /\ Raised(t, "os.remove")
            /\ UNCHANGED uploads
       ELSE /\ uploads' = [uploads EXCEPT ![req[t].filename] = NoFile]
            /\ Return(t, AfterRemove(t))
            /\ Call(t, "os.remove")
    /\ UNCHANGED <<environ, globals, collection, nreq, everFailed,
                   req, rid, text, stored, used, seen>>

(* ------------------------------------------------------------------ *)
(* process_and_store_text (lines 81-105)                               *)
(* ------------------------------------------------------------------ *)

\* lines 83-84: initialise when there is no vector_store
process_and_store_text(t) ==
    /\ pc[t] = "pst"
    /\ Goto(t, IF vector_store = NoneStore THEN "init" ELSE "split")
    /\ Call(t, "process_and_store_text")
    /\ UNCHANGED <<environ, globals, collection, uploads, nreq, everFailed,
                   req, rid, text, stored, used, seen>>

\* variant with a fault: an empty list of chunks is not refused
split_and_check_unchecked(t) ==
    /\ pc[t] = "split"
    /\ Goto(t, IF vector_store = NoneStore THEN "rm_process" ELSE "add")
    /\ Call(t, "split_text")
    /\ UNCHANGED <<environ, globals, collection, uploads, nreq, everFailed,
                   req, rid, text, stored, used, seen>>

\* lines 88-102: split the text; no chunks or no vector_store returns None
split_and_check(t) ==
    /\ pc[t] = "split"
    /\ Goto(t, IF Texts[text[t]] = <<>> \/ vector_store = NoneStore
               THEN "rm_process" ELSE "add")
    /\ Call(t, "split_text")
    /\ UNCHANGED <<environ, globals, collection, uploads, nreq, everFailed,
                   req, rid, text, stored, used, seen>>

\* the row the store writes for chunk i of this request
Row(t, i) == [chunk |-> <<text[t], i>>, id |-> <<rid[t], i>>]

\* variant with a fault: a chunk equal to a stored one is not written again
add_texts_dedup(t) ==
    /\ pc[t] = "add"
    /\ \E ok \in BOOLEAN :
         IF ok
         THEN /\ collection' =
                   IF \E i \in 1..Len(collection) :
                        collection[i].chunk = Row(t, stored[t] + 1).chunk
                   THEN collection
                   ELSE Append(collection, Row(t, stored[t] + 1))
              /\ stored' = [stored EXCEPT ![t] = @ + 1]
              /\ Goto(t, IF stored[t] + 1 = Len(Texts[text[t]])
                         THEN "rm_done" ELSE "add")
              /\ Call(t, "add_texts")
              /\ UNCHANGED everFailed
         ELSE /\ Return(t, Failure(E_Server))
              /\ Raised(t, "add_texts")
              /\ everFailed' = TRUE
              /\ UNCHANGED <<collection, stored>>
    /\ UNCHANGED <<environ, globals, uploads, nreq, req, rid, text, used, seen>>

\* variant with a fault: a write that raises takes the request's earlier rows back out
add_texts_rollback(t) ==
    /\ pc[t] = "add"
    /\ \E ok \in BOOLEAN :
         IF ok
         THEN /\ collection' = Append(collection, Row(t, stored[t] + 1))
              /\ stored' = [stored EXCEPT ![t] = @ + 1]
              /\ Goto(t, IF stored[t] + 1 = Len(Texts[text[t]])
                         THEN "rm_done" ELSE "add")
              /\ Call(t, "add_texts")
              /\ UNCHANGED everFailed
         ELSE /\ Return(t, Failure(E_Server))
              /\ Raised(t, "add_texts")
              /\ everFailed' = TRUE
              /\ collection' = SelectSeq(collection,
                                         LAMBDA row : row.id[1] # rid[t])
              /\ UNCHANGED stored
    /\ UNCHANGED <<environ, globals, uploads, nreq, req, rid, text, used, seen>>

\* line 103: vector_store.add_texts(texts) writes one row per chunk; a write
\* that raises ends the request at line 145 with the earlier rows in place
add_texts(t) ==
    /\ pc[t] = "add"
    /\ \E ok \in BOOLEAN :
         IF ok
         THEN /\ collection' = Append(collection, Row(t, stored[t] + 1))
              /\ stored' = [stored EXCEPT ![t] = @ + 1]
              /\ Goto(t, IF stored[t] + 1 = Len(Texts[text[t]])
                         THEN "rm_done" ELSE "add")
              /\ Call(t, "add_texts")
              /\ UNCHANGED everFailed
         ELSE /\ Return(t, Failure(E_Server))
              /\ Raised(t, "add_texts")
              /\ everFailed' = TRUE
              /\ UNCHANGED <<collection, stored>>
    /\ UNCHANGED <<environ, globals, uploads, nreq, req, rid, text, used, seen>>

(* ------------------------------------------------------------------ *)
(* query_pdf (lines 149-193)                                           *)
(* ------------------------------------------------------------------ *)

Min(a, b) == IF a < b THEN a ELSE b

\* lines 153-154: initialise when a handle is missing
query_pdf(t) ==
    /\ \E r \in QueryRequests : Accept(t, r)
    /\ Goto(t, IF vector_store = NoneStore \/ vector_index = NoneIndex
               THEN "init" ELSE "q_check")
    /\ calls' = [calls EXCEPT ![t] = <<>>]
    /\ UNCHANGED <<environ, globals, collection, uploads, everFailed, seen>>

\* variant with a fault: the emptiness check of line 164 is left out
query_check_unstripped(t) ==
    /\ pc[t] = "q_check"
    /\ IF vector_index = NoneIndex \/ vector_store = NoneStore
       THEN Return(t, Failure(E_NotInit))
       ELSE IF ~req[t].body.present
       THEN Return(t, Failure(E_NoQuestion))
       ELSE Goto(t, "q_answer")
    /\ UNCHANGED <<environ, globals, collection, uploads, nreq, everFailed,
                   req, rid, calls, text, stored, used, seen>>

\* lines 156-165: the handles are checked again, then the question
query_check(t) ==
    /\ pc[t] = "q_check"
    /\ IF vector_index = NoneIndex \/ vector_store = NoneStore
       THEN Return(t, Failure(E_NotInit))
       ELSE IF ~req[t].body.present
       THEN Return(t, Failure(E_NoQuestion))
       ELSE IF Strip(req[t].body.question) = <<>>
       THEN Return(t, Failure(E_EmptyQuestion))
       ELSE Goto(t, "q_answer")
    /\ UNCHANGED <<environ, globals, collection, uploads, nreq, everFailed,
                   req, rid, calls, text, stored, used, seen>>

\* variant with a fault: the question asked is written to the table as a row
query_answer_records(t) ==
    /\ pc[t] = "q_answer"
    /\ \E ok \in BOOLEAN :
         IF ok /\ llm # None
         THEN /\ used' = [used EXCEPT ![t].index_store = vector_index.vectorstore.id]
              /\ collection' = Append(collection,
                                      [chunk |-> <<"short", 1>>, id |-> <<rid[t], 1>>])
              /\ Call(t, "vector_index.query")
              /\ Goto(t, "q_search")
              /\ UNCHANGED everFailed
         ELSE /\ Return(t, Failure(E_Server))
              /\ Raised(t, "vector_index.query")
              /\ everFailed' = TRUE
              /\ UNCHANGED <<used, collection>>
    /\ UNCHANGED <<environ, globals, uploads, nreq,
                   req, rid, text, stored, seen>>

\* line 170: vector_index.query(question, llm = llm)
query_answer(t) ==
    /\ pc[t] = "q_answer"
    /\ \E ok \in BOOLEAN :
         IF ok /\ llm # None
         THEN /\ used' = [used EXCEPT ![t].index_store = vector_index.vectorstore.id]
              /\ Call(t, "vector_index.query")
              /\ Goto(t, "q_search")
              /\ UNCHANGED everFailed
         ELSE /\ Return(t, Failure(E_Server))
              /\ Raised(t, "vector_index.query")
              /\ everFailed' = TRUE
              /\ UNCHANGED used
    /\ UNCHANGED <<environ, globals, collection, uploads, nreq,
                   req, rid, text, stored, seen>>

\* the text of a stored row
RowText(row) == Texts[row.chunk[1]][row.chunk[2]]

\* the orders of relevance the store may rank its rows in for a question
Rankings == {"oldest_nearest", "newest_nearest"}

\* the rows of the table, nearest first
Ranked(ranking) ==
    LET n == Len(collection)
    IN  [i \in 1..n |->
           IF ranking = "oldest_nearest" THEN collection[i]
           ELSE collection[n + 1 - i]]

\* vector_store.similarity_search_with_score(question, k): the k nearest
\* rows, each with its distance
similarity_search_with_score(ranking, k) ==
    [i \in 1..Min(k, Len(collection)) |->
        [doc |-> Ranked(ranking)[i], score |-> i]]

\* variant with a fault: a text of exactly SnippetLen characters is marked too
Snippet_marks_from_limit(page_content) ==
    IF Len(page_content) >= SnippetLen
    THEN SubSeq(page_content, 1, SnippetLen) \o <<".", ".", ".">>
    ELSE page_content

\* line 180: page_content[:300] + "..." if len(page_content) > 300 else page_content
Snippet(page_content) ==
    IF Len(page_content) > SnippetLen
    THEN SubSeq(page_content, 1, SnippetLen) \o <<".", ".", ".">>
    ELSE page_content

\* lines 176-181: docs_data
FormatDocs(relevant_docs) ==
    [i \in 1..Len(relevant_docs) |->
        [score |-> relevant_docs[i].score,
         content |-> Snippet(RowText(relevant_docs[i].doc))]]

\* lines 173-189: the top-k search on vector_store, then the response
query_search(t) ==
    /\ pc[t] = "q_search"
    /\ \E ok \in BOOLEAN, ranking \in Rankings :
         IF ok
         THEN LET relevant_docs == similarity_search_with_score(ranking, TopK)
                  docs_data == FormatDocs(relevant_docs)
              IN  /\ used' = [used EXCEPT ![t] =
                               [@ EXCEPT !.store = vector_store.id,
                                         !.relevant_docs = relevant_docs,
                                         !.docs_data = docs_data]]
                  /\ Return(t, Success(Len(docs_data)))
              /\ Call(t, "similarity_search_with_score")
              /\ UNCHANGED everFailed
         ELSE /\ Return(t, Failure(E_Server))
              /\ Raised(t, "similarity_search_with_score")
              /\ everFailed' = TRUE
              /\ UNCHANGED used
    /\ UNCHANGED <<environ, globals, collection, uploads, nreq,
                   req, rid, text, stored, seen>>

(* ------------------------------------------------------------------ *)
(* health_check (lines 195-205)                                        *)
(* ------------------------------------------------------------------ *)

\* line 200: vector_store is not None
health_check(t) ==
    /\ Accept(t, HealthRequest)
    /\ seen' = [seen EXCEPT ![t] = <<vector_store # NoneStore, FALSE, FALSE>>]
    /\ Goto(t, "health_llm")
    /\ calls' = [calls EXCEPT ![t] = <<>>]
    /\ UNCHANGED <<environ, globals, collection, uploads, everFailed>>

\* line 201: llm is not None
health_llm(t) ==
    /\ pc[t] = "health_llm"
    /\ seen' = [seen EXCEPT ![t][2] = llm # None]
    /\ Goto(t, "health_embedding")
    /\ UNCHANGED <<environ, globals, collection, uploads, nreq, everFailed,
                   req, rid, calls, text, stored, used>>

\* lines 202-205: embedding is not None, and the status is returned
health_embedding(t) ==
    /\ pc[t] = "health_embedding"
    /\ seen' = [seen EXCEPT ![t][3] = embedding # None]
    /\ Return(t, Healthy(seen'[t]))
    /\ UNCHANGED <<environ, globals, collection, uploads, nreq, everFailed,
                   req, rid, calls, text, stored, used>>

\* the response leaves and the thread is free for the next request
respond(t) ==
    /\ pc[t] = "done"
    /\ pc' = [pc EXCEPT ![t] = "idle"]
    /\ req' = [req EXCEPT ![t] = NoRequest]
    /\ rid' = [rid EXCEPT ![t] = 0]
    /\ resp' = [resp EXCEPT ![t] = NoResponse]
    /\ calls' = [calls EXCEPT ![t] = <<>>]
    /\ text' = [text EXCEPT ![t] = NoText]
    /\ stored' = [stored EXCEPT ![t] = 0]
    /\ used' = [used EXCEPT ![t] = NoUse]
    /\ seen' = [seen EXCEPT ![t] = NoFlags]
    /\ UNCHANGED <<environ, globals, collection, uploads, nreq, everFailed>>

(* ------------------------------------------------------------------ *)
(* Specification                                                       *)
(* ------------------------------------------------------------------ *)

Next ==
    \E t \in Threads :
        \/ upload_pdf(t)
        \/ extract_text_from_pdf(t)
        \/ os_remove(t)
        \/ process_and_store_text(t)
        \/ split_and_check(t)
        \/ add_texts(t)
        \/ initialize_components(t)
        \/ init_llm(t)
        \/ init_embedding(t)
        \/ init_vector_store(t)
        \/ init_vector_index(t)
        \/ query_pdf(t)
        \/ query_check(t)
        \/ query_answer(t)
        \/ query_search(t)
        \/ health_check(t)
        \/ health_llm(t)
        \/ health_embedding(t)
        \/ respond(t)

Spec == Init /\ [][Next]_vars

\* the rows an earlier run of the application left in table pdf_query
EarlierRows ==
    [i \in 1..Len(Texts["many"]) |-> [chunk |-> <<"many", i>>, id |-> <<0, i>>]]

\* the application starts on a table that already holds rows
InitEarlier ==
    /\ environ \in [1..3 -> BOOLEAN]
    /\ llm = None
    /\ embedding = None
    /\ vector_store = NoneStore
    /\ vector_index = NoneIndex
    /\ collection = EarlierRows
    /\ uploads = [n \in FileNames |-> NoFile]
    /\ nreq = 0
    /\ everFailed = FALSE
    /\ pc = [t \in Threads |-> "idle"]
    /\ req = [t \in Threads |-> NoRequest]
    /\ rid = [t \in Threads |-> 0]
    /\ resp = [t \in Threads |-> NoResponse]
    /\ calls = [t \in Threads |-> <<>>]
    /\ text = [t \in Threads |-> NoText]
    /\ stored = [t \in Threads |-> 0]
    /\ used = [t \in Threads |-> NoUse]
    /\ seen = [t \in Threads |-> NoFlags]

SpecEarlier == InitEarlier /\ [][Next]_vars

\* the texts process_and_store_text is applied to at line 133
IngestTexts == EmptyTexts \cup {"short"}

\* request 1 stands at line 133 with its file saved and process_and_store_text
\* about to be applied to a text drawn from IngestTexts
InitIngest ==
    /\ environ \in [1..3 -> BOOLEAN]
    /\ llm = None
    /\ embedding = None
    /\ vector_store = NoneStore
    /\ vector_index = NoneIndex
    /\ collection = <<>>
    /\ uploads = [n \in FileNames |-> IF n = "a.pdf" THEN "short" ELSE NoFile]
    /\ nreq = 1
    /\ everFailed = FALSE
    /\ pc = [t \in Threads |-> IF t = 1 THEN "pst" ELSE "idle"]
    /\ req = [t \in Threads |->
                IF t = 1
                THEN [op |-> "upload", form |-> "pdf", filename |-> "a.pdf",
                      doc |-> "short", body |-> NoBody]
                ELSE NoRequest]
    /\ rid = [t \in Threads |-> IF t = 1 THEN 1 ELSE 0]
    /\ resp = [t \in Threads |-> NoResponse]
    /\ calls = [t \in Threads |-> <<>>]
    /\ \E raw_text \in IngestTexts :
         text = [t \in Threads |-> IF t = 1 THEN raw_text ELSE NoText]
    /\ stored = [t \in Threads |-> 0]
    /\ used = [t \in Threads |-> NoUse]
    /\ seen = [t \in Threads |-> NoFlags]

SpecIngest == InitIngest /\ [][Next]_vars

(* ------------------------------------------------------------------ *)
(* Vocabulary of the properties                                        *)
(* ------------------------------------------------------------------ *)

Done(t) == pc[t] = "done"

Has(t, name) == \E i \in 1..Len(calls[t]) : calls[t][i] = name

InInit(t) ==
    pc[t] \in {"init", "init_llm", "init_embedding", "init_store", "init_index"}

ConfigPresent == ASTRA_DB_APPLICATION_TOKEN /\ ASTRA_DB_ID /\ OPENAI_API_KEY

AllNone ==
    /\ llm = None
    /\ embedding = None
    /\ vector_store = NoneStore
    /\ vector_index = NoneIndex

Ready ==
    /\ llm # None
    /\ embedding # None
    /\ vector_store # NoneStore
    /\ vector_index # NoneIndex

\* calls that reach the backend or construct a handle
External ==
    {"cassio.init", "OpenAI", "OpenAIEmbeddings", "Cassandra",
     "VectorStoreIndexWrapper", "vector_index.query",
     "similarity_search_with_score", "add_texts"}

ContactsNothing(t) == \A i \in 1..Len(calls[t]) : calls[t][i] \notin External

InitCalls ==
    {"cassio.init", "OpenAI", "OpenAIEmbeddings", "Cassandra",
     "VectorStoreIndexWrapper"}

\* the request's call of initialize_components returned False
InitFailed(t) ==
    \/ Has(t, "config_missing")
    \/ \E i \in 1..(Len(calls[t]) - 1) :
         calls[t][i] \in InitCalls /\ calls[t][i + 1] = "raise"

EmptyQuestion(t) ==
    /\ req[t].op = "query"
    /\ req[t].body.present
    /\ Strip(req[t].body.question) = <<>>

SavedUpload(t) == req[t].op = "upload" /\ req[t].form = "pdf"

\* the rows of the collection written for request k
RowsOf(k) == {i \in 1..Len(collection) : collection[i].id[1] = k}

(* ------------------------------------------------------------------ *)
(* C1                                                                  *)
(* ------------------------------------------------------------------ *)

\* C1: initialisation is all-or-nothing: whenever no call of
\* initialize_components is in progress, the four handles are all None or
\* all set, so a failed call exposes no handle.
C1_AllOrNothing ==
    (\A t \in Threads : ~InInit(t)) => (AllNone \/ Ready)

(* ------------------------------------------------------------------ *)
(* C2                                                                  *)
(* ------------------------------------------------------------------ *)

\* the attempts whose objects the four globals hold
HandleOwners ==
    {llm, embedding, vector_store.id, vector_index.id} \ {None}

\* C2: with a backend that never fails, the handles are assigned by one
\* initialisation attempt only, however many requests trigger it at once.
C2_InitializedOnce ==
    ~everFailed => Cardinality(HandleOwners) <= 1

(* ------------------------------------------------------------------ *)
(* C3                                                                  *)
(* ------------------------------------------------------------------ *)

C4_ReadyIsStable ==
    [][Ready => UNCHANGED globals]_vars

(* ------------------------------------------------------------------ *)
(* C5                                                                  *)
(* ------------------------------------------------------------------ *)

\* the request entered a pipeline: a query, or an upload whose text extracted
PipelineInvoked(t) ==
    req[t].op = "query" \/ Has(t, "process_and_store_text")

\* C5: a pipeline invocation during which nothing raises, with the
\* configuration present and no other initialisation in progress, ends with
\* all four handles set, whatever an earlier failed attempt left behind.
C5_RetryReachesReady ==
    \A t \in Threads :
        ( /\ Done(t)
          /\ PipelineInvoked(t)
          /\ ConfigPresent
          /\ ~Has(t, "raise")
          /\ \A u \in Threads : ~InInit(u) )
        => Ready

(* ------------------------------------------------------------------ *)
(* C6                                                                  *)
(* ------------------------------------------------------------------ *)

\* C6 as stated: text is extracted only once initialisation has succeeded,
\* and with the configuration missing every saved upload fails with the
\* not-initialised failure of process_and_store_text.
C6_InitBeforeExtract ==
    \A t \in Threads :
        SavedUpload(t) =>
            /\ Has(t, "extract_text_from_pdf") => Ready
            /\ (Done(t) /\ ~ConfigPresent) => resp[t] = Failure(E_Process)

\* C6 (amended): the text is extracted first, and initialize_components is
\* called only after extraction gave text. A document that is malformed or
\* has no text fails with the extraction error in every initialisation
\* state, without initialisation being attempted; a document with text whose
\* initialisation fails is answered 'Failed to process and store text' and
\* stores nothing. (os.remove raising on a file already removed turns either
\* answer into 'Server error'.)
C6_ExtractBeforeInit ==
    \A t \in Threads :
        SavedUpload(t) =>
            /\ Has(t, "initialize_components") =>
                 /\ text[t] # NoText
                 /\ SubSeq(calls[t], 1, 4) =
                      <<"file.save", "extract_text_from_pdf",
                        "process_and_store_text", "initialize_components">>
            /\ (Done(t) /\ text[t] = NoText) =>
                 /\ ~Has(t, "process_and_store_text")
                 /\ ContactsNothing(t)
                 /\ resp[t] = IF Has(t, "raise") THEN Failure(E_Server)
                              ELSE Failure(E_Extract)
            /\ (Done(t) /\ InitFailed(t)) =>
                 /\ stored[t] = 0
                 /\ RowsOf(rid[t]) = {}
                 /\ resp[t] = IF calls[t][Len(calls[t]) - 1] = "os.remove"
                              THEN Failure(E_Server)
                              ELSE Failure(E_Process)

\* C6 witness: a malformed document uploaded before any initialisation is
\* answered with the extraction error
C6_Witness ==
    \E t \in Threads :
        /\ SavedUpload(t)
        /\ Done(t)
        /\ req[t].doc = "malformed"
        /\ AllNone
        /\ resp[t] = Failure(E_Extract)

(* ------------------------------------------------------------------ *)
(* C7                                                                  *)
(* ------------------------------------------------------------------ *)

\* C7: in every reachable state the three flags health_check reports
\* (vector_store, llm, embedding) are false together or true together.
C7_FlagsAgree ==
    /\ (vector_store # NoneStore) = (llm # None)
    /\ (llm # None) = (embedding # None)

(* ------------------------------------------------------------------ *)
(* C8                                                                  *)
(* ------------------------------------------------------------------ *)

\* C8: with a configuration value absent no handle is ever assigned, no
\* request connects to the backend or constructs a handle, the collection
\* stays empty, and every upload and every query is answered with a failure.
C8_ConfigMissingFailsFast ==
    ~ConfigPresent =>
        /\ AllNone
        /\ collection = <<>>
        /\ \A t \in Threads :
             /\ ContactsNothing(t)
             /\ pc[t] \notin {"init_llm", "init_embedding", "init_store",
                              "init_index", "split", "add", "rm_done",
                              "q_check", "q_answer", "q_search"}
             /\ (Done(t) /\ req[t].op \in {"upload", "query"}) =>
                  /\ ~resp[t].success
                  /\ resp[t].count = 0

\* C8 witness: with a value absent, an upload with text and a query have
\* both called initialize_components and been refused
C8_Witness ==
    /\ ~ConfigPresent
    /\ \E t, u \in Threads :
         /\ Done(t) /\ Done(u)
         /\ Has(t, "config_missing") /\ Has(u, "config_missing")
         /\ req[t].op = "upload" /\ resp[t] = Failure(E_Process)
         /\ req[u].op = "query" /\ resp[u] = Failure(E_NotInit)

(* ------------------------------------------------------------------ *)
(* C9                                                                  *)
(* ------------------------------------------------------------------ *)

\* one step of the store: rows are only appended, a chunk written is a row
\* more whether or not an equal chunk is there, and an upload answered with
\* count n has written exactly the n chunks of its text
StoreStep ==
    /\ Len(collection') >= Len(collection)
    /\ SubSeq(collection', 1, Len(collection)) = collection
    /\ \A t \in Threads :
         /\ stored'[t] = stored[t] + 1 =>
              /\ Len(collection') = Len(collection) + 1
              /\ collection'[Len(collection')].chunk = <<text[t], stored'[t]>>
         /\ (pc'[t] = "done" /\ req'[t].op = "upload" /\ resp'[t].success) =>
              /\ resp'[t].count = Len(Texts[text'[t]])
              /\ stored'[t] = resp'[t].count
              /\ Cardinality({i \in 1..Len(collection') :
                                collection'[i].id[1] = rid'[t]})
                   = resp'[t].count

\* C9: the vector store only grows and is never deduplicated; a successful
\* ingest returning n has added exactly n rows.
C9_StoreOnlyGrows ==
    [][StoreStep]_vars

\* C9 witness: the same text ingested twice, its chunk stored twice
C9_Witness ==
    /\ \E i, j \in 1..Len(collection) :
         /\ i < j
         /\ collection[i].chunk = collection[j].chunk
         /\ collection[i].id # collection[j].id
    /\ \E t \in Threads :
         Done(t) /\ req[t].op = "upload" /\ resp[t].success /\ resp[t].count >= 1

(* ------------------------------------------------------------------ *)
(* C10                                                                 *)
(* ------------------------------------------------------------------ *)

\* add_texts raised in this request
StoreFailed(t) ==
    /\ Len(calls[t]) >= 2
    /\ calls[t][Len(calls[t])] = "raise"
    /\ calls[t][Len(calls[t]) - 1] = "add_texts"

\* C10: when add_texts raises partway, the rows it had written stay in the
\* collection, each chunk once, and the upload is answered with a failure
\* and no chunk count.
C10_PartialStoreKept ==
    \A t \in Threads :
        (Done(t) /\ StoreFailed(t)) =>
            /\ resp[t] = Failure(E_Server)
            /\ stored[t] < Len(Texts[text[t]])
            /\ \A k \in 1..stored[t] :
                 Cardinality({i \in 1..Len(collection) :
                                collection[i] = Row(t, k)}) = 1
            /\ Cardinality(RowsOf(rid[t])) = stored[t]

\* C10 witness: the write of the second chunk raised after the first was stored
C10_Witness ==
    \E t \in Threads :
        /\ Done(t)
        /\ StoreFailed(t)
        /\ stored[t] >= 1
        /\ RowsOf(rid[t]) # {}

(* ------------------------------------------------------------------ *)
(* C11                                                                 *)
(* ------------------------------------------------------------------ *)

\* the request is a query answered with success
Answered(t) == Done(t) /\ req[t].op = "query" /\ resp[t].success

\* C11: a successful query returns at most 4 documents, in the order the
\* store returned them and each with its score; a text of more than 300
\* characters is its first 300 characters followed by '...', a text of 300
\* characters or fewer is returned unchanged.
C11_TopFourSnippets ==
    \A t \in Threads :
        Answered(t) =>
            LET found == used[t].relevant_docs
                shown == used[t].docs_data
            IN  /\ Len(shown) <= 4
                /\ Len(shown) = Len(found)
                /\ resp[t].count = Len(shown)
                /\ Len(collection) >= 4 => Len(shown) = 4
                /\ \A i \in 1..Len(shown) :
                     LET page_content == RowText(found[i].doc)
                         content == shown[i].content
                     IN  /\ shown[i].score = found[i].score
                         /\ \A j \in 1..(i - 1) : found[j].score <= found[i].score
                         /\ IF Len(page_content) > 300
                            THEN /\ Len(content) = 303
                                 /\ \A c \in 1..300 : content[c] = page_content[c]
                                 /\ \A c \in 301..303 : content[c] = "."
                            ELSE content = page_content

\* C11 witness: five rows stored, four returned, among them a text of
\* exactly 300 characters left whole and a longer one cut and marked
C11_Witness ==
    \E t \in Threads :
        /\ Answered(t)
        /\ Len(collection) >= 5
        /\ Len(used[t].docs_data) = 4
        /\ \E i, j \in 1..4 :
             /\ Len(RowText(used[t].relevant_docs[i].doc)) = 300
             /\ Len(used[t].docs_data[i].content) = 300
             /\ Len(RowText(used[t].relevant_docs[j].doc)) > 300
             /\ Len(used[t].docs_data[j].content) = 303

(* ------------------------------------------------------------------ *)
(* C12                                                                 *)
(* ------------------------------------------------------------------ *)

\* C12: a text of 900 identical characters without a separator is split into
\* exactly 2 chunks, of 800 and 300 characters, the second starting at
\* character 600 (its first character is the 601st of the text).
C12_SplitAtChunkSize ==
    \A t \in Threads :
        Has(t, "split_text") /\ text[t] = "nosep" =>
            LET texts == Texts[text[t]]
            IN  /\ Len(RawText(text[t])) = 900
                /\ Len(texts) = 2
                /\ Len(texts[1]) = 800
                /\ Len(texts[2]) = 300
                /\ texts[2] = SubSeq(RawText(text[t]), 601, 900)

(* ------------------------------------------------------------------ *)
(* C13                                                                 *)
(* ------------------------------------------------------------------ *)

\* process_and_store_text was applied to an empty text for this request
EmptyIngest(t) == SavedUpload(t) /\ text[t] \in EmptyTexts

\* C13: process_and_store_text applied to an empty text gets zero chunks and
\* returns None: no row is added for the request, add_texts is not called,
\* and the request is answered with a failure and no chunk count.
C13_EmptyTextNoChunks ==
    \A t \in Threads :
        EmptyIngest(t) =>
            /\ Len(Texts[text[t]]) = 0
            /\ pc[t] \notin {"add", "rm_done"}
            /\ ~Has(t, "add_texts")
            /\ stored[t] = 0
            /\ RowsOf(rid[t]) = {}
            /\ Done(t) =>
                 /\ ~resp[t].success
                 /\ resp[t].count = 0
                 /\ resp[t].error \in {E_Process, E_Server}
                 /\ resp[t].error = E_Server => Has(t, "raise")

\* C13 witness: the empty text was split with the store at hand, and the
\* request failed as a processing failure
C13_Witness ==
    \E t \in Threads :
        /\ EmptyIngest(t)
        /\ text[t] = "empty"
        /\ Done(t)
        /\ Has(t, "split_text")
        /\ vector_store # NoneStore
        /\ resp[t] = Failure(E_Process)

(* ------------------------------------------------------------------ *)
(* C14                                                                 *)
(* ------------------------------------------------------------------ *)

\* no other request in service saved a file under the name of request t's
OnlyUser(t) ==
    \A u \in Threads \ {t} : req[u].filename # req[t].filename

\* C14: when an upload that saved its file returns, whatever its outcome,
\* the saved file no longer exists in the upload folder.
C14_SavedFileRemoved ==
    \A t \in Threads :
        Done(t) /\ SavedUpload(t) /\ OnlyUser(t) =>
            uploads[req[t].filename] = NoFile

(* ------------------------------------------------------------------ *)
(* C15                                                                 *)
(* ------------------------------------------------------------------ *)

\* C15: a non-None vector_index wraps the store object that vector_store
\* refers to, and that store is bound to the object that embedding refers
\* to; the generation call and the top-4 search of one answered query used
\* the same store object.
C15_IndexWrapsStore ==
    /\ vector_index # NoneIndex =>
         /\ vector_index.vectorstore.id = vector_store.id
         /\ vector_store.embedding = embedding
    /\ \A t \in Threads :
         Answered(t) => used[t].index_store = used[t].store

(* ------------------------------------------------------------------ *)
(* C16                                                                 *)
(* ------------------------------------------------------------------ *)

\* C16: whenever vector_index is not None, vector_store, embedding and llm
\* are not None either; a query that has passed its initialisation check
\* (lines 153-157) finds llm set when it calls the generation function.
C16_IndexImpliesAll ==
    /\ vector_index # NoneIndex =>
         /\ vector_store # NoneStore
         /\ embedding # None
         /\ llm # None
    /\ \A t \in Threads :
         pc[t] \in {"q_check", "q_answer", "q_search"} \/ Has(t, "vector_index.query")
             => llm # None

\* C16 witness: a query has called the generation function while another
\* request's initialisation attempt has failed
C16_Witness ==
    \E t, u \in Threads :
        /\ t # u
        /\ pc[t] = "q_search"
        /\ InitFailed(u)
        /\ ~Has(u, "config_missing")
        /\ vector_index # NoneIndex

(* ------------------------------------------------------------------ *)
(* C17                                                                 *)
(* ------------------------------------------------------------------ *)

\* request t is one that does not ingest: a query, a health check, an upload
\* rejected before its file is saved, an upload without extracted text, or an
\* upload whose initialisation failed
NoIngest(t) ==
    \/ req[t].op \in {"query", "health"}
    \/ req[t].op = "upload" /\ req[t].form # "pdf"
    \/ SavedUpload(t) /\ text[t] = NoText
    \/ SavedUpload(t) /\ InitFailed(t)

\* thread t takes this step
Acting(t) == pc'[t] # pc[t] \/ stored'[t] # stored[t]

\* one step seen from the store: a step of a request that does not ingest
\* leaves the rows as they are and no row carries its id, a step of a health
\* check leaves the four handles as they are, and the rows change only by
\* add_texts writing one chunk of an upload's text
FrameStep ==
    /\ \A t \in Threads :
         /\ Acting(t) /\ (NoIngest(t) \/ NoIngest(t)') => collection' = collection
         /\ NoIngest(t)' => RowsOf(rid[t])' = {}
         /\ Acting(t) /\ (req[t].op = "health" \/ req'[t].op = "health") =>
              /\ globals' = globals
              /\ collection' = collection
    /\ collection' # collection =>
         \E t \in Threads :
             /\ pc[t] = "add"
             /\ SavedUpload(t)
             /\ text[t] # NoText
             /\ ~InitFailed(t)
             /\ collection' = Append(collection, Row(t, stored[t] + 1))

\* C17: a query (answered or failed), a health check, an upload rejected for
\* its file, an upload whose extraction fails or is empty, and an upload
\* whose initialisation fails add no row to the store, and a health check
\* changes no handle.
C17_NoIngestNoRows ==
    [][FrameStep]_vars

\* C17 witness: on a table that held rows before, a query has been answered
\* and a health check or failed upload has returned beside it, and the table
\* holds the rows it held
C17_Witness ==
    \E t, u \in Threads :
        /\ t # u
        /\ Answered(t)
        /\ Done(u)
        /\ NoIngest(u)
        /\ req[u].op # "query"
        /\ Len(used[t].docs_data) >= 1
        /\ collection = EarlierRows

====
